---------------------------- MODULE Spec2Model ----------------------------
(***************************************************************************)
(* Verification model of the equity-ranking pipeline:                      *)
(*   agents/scoring/agent6_ranker.py   rank_stocks                         *)
(*   agents/quant/agent4_screener.py   screen_universe, _screen_single     *)
(*   agents/quant/agent5_factors.py    compute_factor_scores and factors   *)
(*   main.py, backtesting/backtest.py  run_pipeline, _run_single_period,   *)
(*                                     run_backtest                        *)
(*                                                                         *)
(* Floating-point values are modelled as binary floating-point numbers     *)
(* m * 2^e with a MantBits-bit significand and round-to-nearest-even on    *)
(* every operation, the rounding rule of the float64 arithmetic that       *)
(* pandas and numpy perform.  A missing value (None / NaN) is the float    *)
(* NaN.                                                                    *)
(***************************************************************************)
EXTENDS Integers, Sequences, FiniteSets, TLC

(***************************************************************************)
(* Bounds of the model.                                                    *)
(***************************************************************************)
\* Largest number of FactorScores handed to rank_stocks.
MaxTickers == 3
\* Largest explicit top_n argument.
MaxTopN == 3
\* Width of the significand of a modelled float (float64 has 53).
MantBits == 13
\* Largest number of tickers handed to screen_universe.
MaxUniverse == 3
\* Largest number of tickers handed to compute_factor_scores.
MaxFactorTickers == 2
\* Largest number of rebalance dates of a backtest.
MaxPeriods == 2

(***************************************************************************)
(* Binary floating point, round to nearest, ties to even.                  *)
(***************************************************************************)
NaN == [nan |-> TRUE, m |-> 0, e |-> 0]
Zero == [nan |-> FALSE, m |-> 0, e |-> 0]

Abs(x) == IF x < 0 THEN -x ELSE x
Sign(x) == IF x < 0 THEN -1 ELSE 1
Max(a, b) == IF a >= b THEN a ELSE b

\* Number of bits of n >= 0.
RECURSIVE BitLen(_)
BitLen(n) ==
    IF n >= 65536 THEN 16 + BitLen(n \div 65536)
    ELSE IF n >= 256 THEN 8 + BitLen(n \div 256)
    ELSE IF n >= 16 THEN 4 + BitLen(n \div 16)
    ELSE IF n = 0 THEN 0 ELSE 1 + BitLen(n \div 2)

\* n / 2^k rounded to the nearest integer, ties to even (n >= 0, k >= 1).
RoundHalfEven(n, k) ==
    LET q == n \div (2 ^ k)
        r == n % (2 ^ k)
        h == 2 ^ (k - 1)
    IN  IF r > h \/ (r = h /\ q % 2 = 1) THEN q + 1 ELSE q

\* A significand q of up to MantBits bits, or 2^MantBits after a carry.
Carry(sign, q, e) ==
    IF q = 2 ^ MantBits
    THEN [nan |-> FALSE, m |-> sign * (2 ^ (MantBits - 1)), e |-> e + 1]
    ELSE [nan |-> FALSE, m |-> sign * q, e |-> e]

\* The float nearest to sign * mag * 2^e, where mag > 0 has bl bits.
NormBits(sign, mag, e, bl) ==
    IF bl > MantBits
    THEN Carry(sign, RoundHalfEven(mag, bl - MantBits), e + (bl - MantBits))
    ELSE [nan |-> FALSE, m |-> sign * mag * (2 ^ (MantBits - bl)),
          e |-> e - (MantBits - bl)]

\* The float nearest to sign * mag * 2^e  (mag >= 0).
Norm(sign, mag, e) ==
    IF mag = 0 THEN Zero ELSE NormBits(sign, mag, e, BitLen(mag))

\* The float nearest to sign * (n / d) * 2^e  (n > 0, d > 0): the quotient is
\* taken to MantBits + 1 bits and a sticky bit records a remainder.
Quotient(sign, num, d, e) ==
    Norm(sign, 2 * (num \div d) + (IF num % d = 0 THEN 0 ELSE 1), e)

Scaled(sign, n, d, e, s) == Quotient(sign, n * (2 ^ s), d, e - s - 1)

RatioRound(sign, n, d, e) ==
    Scaled(sign, n, d, e, Max(0, MantBits + 1 + BitLen(d) - BitLen(n)))

FromInt(k) == Norm(Sign(k), Abs(k), 0)

\* A decimal literal num/den (den > 0) as the nearest float.
FromRatio(num, den) ==
    IF num = 0 THEN Zero ELSE RatioRound(Sign(num), Abs(num), den, 0)

FNeg(a) == IF a.nan THEN NaN ELSE [nan |-> FALSE, m |-> -a.m, e |-> a.e]

Signed(s, e) == Norm(Sign(s), Abs(s), e)

\* hi + lo for hi.e >= lo.e: an addend below a quarter of an ulp of hi is
\* absorbed.
AddAligned(hi, lo) ==
    IF hi.e - lo.e > MantBits + 1 THEN hi
    ELSE Signed(hi.m * (2 ^ (hi.e - lo.e)) + lo.m, lo.e)

FAdd(a, b) ==
    IF a.nan \/ b.nan THEN NaN
    ELSE IF a.m = 0 THEN b
    ELSE IF b.m = 0 THEN a
    ELSE IF a.e >= b.e THEN AddAligned(a, b) ELSE AddAligned(b, a)

FSub(a, b) == FAdd(a, FNeg(b))

FMul(a, b) ==
    IF a.nan \/ b.nan THEN NaN
    ELSE Norm(Sign(a.m) * Sign(b.m), Abs(a.m) * Abs(b.m), a.e + b.e)

\* a / b for b # 0.
FDiv(a, b) ==
    IF a.nan \/ b.nan THEN NaN
    ELSE IF a.m = 0 THEN Zero
    ELSE RatioRound(Sign(a.m) * Sign(b.m), Abs(a.m), Abs(b.m), a.e - b.e)

RECURSIVE ISqrtIter(_, _, _)
\* Largest r with r * r <= x, given lo * lo <= x < hi * hi.
ISqrtIter(x, lo, hi) ==
    IF hi - lo <= 1 THEN lo
    ELSE LET mid == (lo + hi) \div 2
         IN  IF mid * mid <= x THEN ISqrtIter(x, mid, hi) ELSE ISqrtIter(x, lo, mid)

RootRound(x, root, e) ==
    Norm(1, 2 * root + (IF root * root = x THEN 0 ELSE 1), e)

SqrtOf(x, e) == RootRound(x, ISqrtIter(x, 0, 2 ^ 15), e)

\* sqrt(a.m * 2^a.e) with the radicand scaled by the even power 2^(a.e - s).
SqrtScaled(a, s) == SqrtOf(a.m * (2 ^ s), ((a.e - s) \div 2) - 1)

\* Square root of a >= 0, correctly rounded.
FSqrt(a) ==
    IF a.nan THEN NaN
    ELSE IF a.m = 0 THEN Zero
    ELSE SqrtScaled(a, IF (a.e - (MantBits + 1)) % 2 = 0
                       THEN MantBits + 1 ELSE MantBits + 2)

\* a < b on numbers (false when either is NaN): by sign, then exponent, then
\* significand (significands are normalised).
FLess(a, b) ==
    /\ ~a.nan /\ ~b.nan
    /\ IF a.m = 0 THEN b.m > 0
       ELSE IF b.m = 0 THEN a.m < 0
       ELSE IF (a.m < 0) # (b.m < 0) THEN a.m < 0
       ELSE IF a.m > 0 THEN a.e < b.e \/ (a.e = b.e /\ a.m < b.m)
       ELSE a.e > b.e \/ (a.e = b.e /\ a.m < b.m)

FLeq(a, b) == ~a.nan /\ ~b.nan /\ ~FLess(b, a)

\* sign * k / 10^4 as the nearest float.
FromDecimal4(sign, k) == IF k = 0 THEN Zero ELSE RatioRound(sign, k, 10000, 0)

\* Python's round(x, 4) on a float: the decimal rounding of the exact
\* value, ties to even, converted back to the nearest float.
PyRound4(a) ==
    IF a.nan THEN NaN
    ELSE IF a.m = 0 \/ a.e >= 0 THEN a
    ELSE IF -a.e >= 31 THEN Zero
    ELSE FromDecimal4(Sign(a.m), RoundHalfEven(Abs(a.m) * 10000, -a.e))


(***************************************************************************)
(* config/settings.py                                                      *)
(***************************************************************************)
FACTOR_WEIGHTS ==
    [momentum |-> FromRatio(40, 100),
     quality  |-> FromRatio(35, 100),
     low_vol  |-> FromRatio(25, 100)]

TOP_N_PER_SECTOR == 3

\* config/settings.py: the hard-screen thresholds (USD, USD, USD per day, ratio).
MIN_PRICE == 5
MIN_MARKET_CAP == 2000000000
MIN_AVG_DAILY_VOLUME_USD == 5000000
MAX_DEBT_TO_EQUITY == 3

\* config/settings.py: the factor lookbacks, in trading bars.
MOMENTUM_LONG_WINDOW_DAYS == 252
MOMENTUM_SHORT_WINDOW_DAYS == 21
VOLATILITY_WINDOW_DAYS == 63

(***************************************************************************)
(* State.                                                                  *)
(***************************************************************************)
VARIABLES
    factor_scores,  \* rank_stocks: the list of FactorScores passed in
    top_n,          \* rank_stocks: the top_n argument ([given |-> FALSE] = omitted)
    sort_ties,      \* how this build's quicksort orders equal keys
    rank_pc,        \* "start", "returned" (first call), "returned_again"
    df,             \* the data frame after step 5 (sorted, ranked, before head)
    results,        \* the list the first call returned
    results_again   \* the list a second call with the same arguments returned

VARIABLES
    tickers,        \* screen_universe: the list of tickers passed in
    screen_pc,      \* "idle", "loop", "returned", "raised"
    fetched,        \* what the last data_provider.get_fundamentals call did
    screen_results, \* screen_universe: the local list `results`
    passed          \* screen_universe: the list `passed` it returns

VARIABLES
    factor_tickers, \* compute_factor_scores: the list of tickers passed in
    data_provider,  \* what the provider answers for each ticker
    as_of_date,     \* compute_factor_scores: the as-of date (a day number)
    start_date,     \* compute_factor_scores: first day of the price window
    end_date,       \* compute_factor_scores: last day of the price window
    factors_pc,     \* "idle", "start", "loop", "returned", "raised", "returned_again"
    scores,         \* compute_factor_scores: the local list `scores`
    tickers_again,  \* the list of another call with the same provider
    scores_again    \* the list that other call returned

VARIABLES
    runner,         \* "run_pipeline" or "_run_single_period" ("none": no run)
    pipeline_pc,    \* "idle", "start", "screened", "scored", "ranked", "halted"
    stages          \* the stages the run has invoked, in order

VARIABLES
    rebalance_dates,     \* run_backtest: the dates of pd.date_range, as day numbers
    period,              \* run_backtest: the index of the next date of the loop
    backtest_pc,         \* "idle", "loop", "returned", "raised"
    snapshots,           \* run_backtest: result.snapshots
    period_errors,       \* what _run_single_period raised for each date done ("none": nothing)
    sector_universe,     \* the list get_tickers_for_sector returns for the sector
    sector_fundamentals  \* what get_fundamentals answers the screener for each ticker

VARIABLES
    log             \* the calls made on the loggers, in order

rank_vars == <<factor_scores, top_n, sort_ties, rank_pc, df, results, results_again>>
screen_vars == <<tickers, screen_pc, fetched, screen_results, passed>>
factor_vars == <<factor_tickers, data_provider, as_of_date, start_date, end_date,
                 factors_pc, scores, tickers_again, scores_again>>
pipeline_vars == <<runner, pipeline_pc, stages>>
backtest_vars == <<rebalance_dates, period, backtest_pc, snapshots, period_errors,
                   sector_universe, sector_fundamentals>>
vars == <<rank_vars, screen_vars, factor_vars, pipeline_vars, backtest_vars, log>>

BacktestIdle ==
    /\ rebalance_dates = <<>>
    /\ period = 0
    /\ backtest_pc = "idle"
    /\ snapshots = <<>>
    /\ period_errors = <<>>
    /\ sector_universe = <<>>
    /\ sector_fundamentals = <<>>

PipelineIdle ==
    /\ runner = "none"
    /\ pipeline_pc = "idle"
    /\ stages = <<>>

FactorsIdle ==
    /\ factor_tickers = <<>>
    /\ data_provider = <<>>
    /\ as_of_date = 0
    /\ start_date = 0
    /\ end_date = 0
    /\ factors_pc = "idle"
    /\ scores = <<>>
    /\ tickers_again = <<>>
    /\ scores_again = <<>>

\* logger.<level>(...): the fixed text of the message and what is formatted
\* into it (a ticker, a reason or error message, a number).
LogRecord(level, text, ticker, detail, n) ==
    [level |-> level, text |-> text, ticker |-> ticker, detail |-> detail, n |-> n]

(***************************************************************************)
(* Inputs of rank_stocks.                                                  *)
(***************************************************************************)
TickerNames == <<"T1", "T2", "T3", "T4", "T5">>

\* A decimal literal with two places, e.g. Dec(20) is 0.20.
Dec(hundredths) == FromRatio(hundredths, 100)

Profile(mom, qua, vol) == [momentum |-> mom, quality |-> qua, low_vol |-> vol]

\* The factors (1 momentum, 2 quality, 3 volatility) a ticker can miss.
MissingPatterns == {{}, {1}, {2}, {3}, {1, 2}, {1, 2, 3}}

\* The raw factors Agent 5 hands over for one ticker: a base ticker
\* (momentum 0.10, quality 0.50, volatility 0.20) with none, one, two or
\* all of its factors missing, and the base ticker with one factor raised.
FactorProfiles ==
    { Profile(IF 1 \in miss THEN NaN ELSE Dec(10),
              IF 2 \in miss THEN NaN ELSE Dec(50),
              IF 3 \in miss THEN NaN ELSE Dec(20)) : miss \in MissingPatterns }
    \cup { Profile(Dec(30), Dec(50), Dec(20)),
           Profile(Dec(10), Dec(90), Dec(20)),
           Profile(Dec(10), Dec(50), Dec(50)) }

\* FactorScores(ticker, momentum, quality, low_vol); tickers are unique.
FactorScoreLists ==
    UNION {
        { [i \in 1..k |-> [ticker   |-> TickerNames[i],
                           momentum |-> ps[i].momentum,
                           quality  |-> ps[i].quality,
                           low_vol  |-> ps[i].low_vol]] : ps \in [1..k -> FactorProfiles] }
        : k \in 0..MaxTickers }

NoTopN == [given |-> FALSE, n |-> 0]
TopNArgs == {NoTopN} \cup {[given |-> TRUE, n |-> k] : k \in 0..MaxTopN}

\* numpy's quicksort gives no order among equal keys: a build keeps them in
\* input order or not.
TiePolicies == {"input_order", "reverse_order"}

(***************************************************************************)
(* agents/scoring/agent6_ranker.py                                         *)
(***************************************************************************)
\* n = top_n or TOP_N_PER_SECTOR
EffectiveN(arg) == IF arg.given /\ arg.n # 0 THEN arg.n ELSE TOP_N_PER_SECTOR

\* Faulty variant of InvertVol: the volatility column keeps its sign.
KeepVol(v) == v

\* Step 1: df["low_vol"].apply(lambda v: -v if v is not None else None)
InvertVol(v) == IF v.nan THEN NaN ELSE FNeg(v)

BuildFrame(given) ==
    [i \in 1..Len(given) |->
        [ticker   |-> given[i].ticker,
         momentum |-> given[i].momentum,
         quality  |-> given[i].quality,
         low_vol  |-> InvertVol(given[i].low_vol),
         pos      |-> i]]

AllFactorsMissing(row) == row.momentum.nan /\ row.quality.nan /\ row.low_vol.nan

\* Faulty variant of DropAllMissing: dropna(how="any").
DropAnyMissing(rows) ==
    SelectSeq(rows, LAMBDA r : ~(r.momentum.nan \/ r.quality.nan \/ r.low_vol.nan))

\* Step 2: df.dropna(subset=factor_cols, how="all")
DropAllMissing(rows) == SelectSeq(rows, LAMBDA r : ~AllFactorsMissing(r))

\* A column or frame held as an array: every element is computed once.
AsArray(s) == SubSeq(s, 1, Len(s))

\* acc + vals[i] + vals[i + step] + ... up to vals[last], left to right,
\* missing entries counted as 0 (skipna).
RECURSIVE FSumFrom(_, _, _, _, _)
FSumFrom(vals, i, step, last, acc) ==
    IF i > last THEN acc
    ELSE FSumFrom(vals, i + step, step, last,
                  IF vals[i].nan THEN acc ELSE FAdd(acc, vals[i]))

\* One of the 8 partial sums numpy keeps over vals[first..last].
Lane(vals, first, last, k) == FSumFrom(vals, first + k, 8, last, Zero)

\* numpy's pairwise sum of vals[first..first + n - 1] for n <= 128: a plain
\* loop below 8 elements, else 8 interleaved partial sums that are added
\* in pairs, then the n % 8 last elements.
BlockSum(vals, first, n) ==
    IF n < 8 THEN FSumFrom(vals, first, 1, first + n - 1, Zero)
    ELSE FSumFrom(vals, first + n - (n % 8), 1, first + n - 1,
             FAdd(FAdd(FAdd(Lane(vals, first, first + n - (n % 8) - 1, 0),
                            Lane(vals, first, first + n - (n % 8) - 1, 1)),
                       FAdd(Lane(vals, first, first + n - (n % 8) - 1, 2),
                            Lane(vals, first, first + n - (n % 8) - 1, 3))),
                  FAdd(FAdd(Lane(vals, first, first + n - (n % 8) - 1, 4),
                            Lane(vals, first, first + n - (n % 8) - 1, 5)),
                       FAdd(Lane(vals, first, first + n - (n % 8) - 1, 6),
                            Lane(vals, first, first + n - (n % 8) - 1, 7)))))

\* values.sum(): np.add.reduce starts from the first element and adds the
\* pairwise sum of the others.
FSum(col) ==
    IF Len(col) = 0 THEN Zero
    ELSE FAdd(IF col[1].nan THEN Zero ELSE col[1], BlockSum(col, 2, Len(col) - 1))

Count(col) == Cardinality({i \in 1..Len(col) : ~col[i].nan})

\* series.mean(skipna=True)
Mean(col) ==
    IF Count(col) = 0 THEN NaN ELSE FDiv(FSum(col), FromInt(Count(col)))

\* series.std(skipna=True): sample standard deviation (ddof = 1), two passes.
Square(x) == FMul(x, x)

\* sqr = (avg - values) ** 2, missing entries counted as 0
SquaredDeviations(col, avg) ==
    [i \in 1..Len(col) |-> IF col[i].nan THEN Zero ELSE Square(FSub(avg, col[i]))]

Std(col) ==
    IF Count(col) <= 1 THEN NaN
    ELSE FSqrt(FDiv(FSum(SquaredDeviations(col, Mean(col))), FromInt(Count(col) - 1)))

\* Faulty variant of ZScores: a missing factor is filled with -1.0, not 0.0.
ZScoresPenalised(col, mean, std) ==
    IF std.nan \/ std.m = 0
    THEN [i \in 1..Len(col) |-> IF col[i].nan THEN FromInt(-1) ELSE Zero]
    ELSE AsArray([i \in 1..Len(col) |->
             IF col[i].nan THEN FromInt(-1) ELSE FDiv(FSub(col[i], mean), std)])

\* Step 3 for one factor column: z-scores, neutral 0.0 when std is 0 or NaN,
\* and fillna(0.0) for the rows missing the factor.
ZScores(col, mean, std) ==
    IF std.nan \/ std.m = 0
    THEN [i \in 1..Len(col) |-> Zero]
    ELSE AsArray([i \in 1..Len(col) |->
             IF col[i].nan THEN Zero ELSE FDiv(FSub(col[i], mean), std)])

ZScoreColumn(col) == ZScores(col, Mean(col), Std(col))

\* Step 4: w_mom * momentum_z + w_qua * quality_z + w_vol * low_vol_z
Composite(mz, qz, vz) ==
    FAdd(FAdd(FMul(FACTOR_WEIGHTS.momentum, mz), FMul(FACTOR_WEIGHTS.quality, qz)),
         FMul(FACTOR_WEIGHTS.low_vol, vz))

WithZ(rows, mz, qz, vz) ==
    AsArray([i \in 1..Len(rows) |->
        [ticker          |-> rows[i].ticker,
         momentum        |-> rows[i].momentum,
         quality         |-> rows[i].quality,
         low_vol         |-> rows[i].low_vol,
         pos             |-> rows[i].pos,
         momentum_z      |-> mz[i],
         quality_z       |-> qz[i],
         low_vol_z       |-> vz[i],
         composite_score |-> Composite(mz[i], qz[i], vz[i])]])

\* Steps 3 and 4: the three z-score columns and the composite column.
Scored(rows) ==
    WithZ(rows,
          ZScoreColumn(AsArray([i \in 1..Len(rows) |-> rows[i].momentum])),
          ZScoreColumn(AsArray([i \in 1..Len(rows) |-> rows[i].quality])),
          ZScoreColumn(AsArray([i \in 1..Len(rows) |-> rows[i].low_vol])))

\* Faulty variant of TieBefore: the order of equal keys changes from one
\* call to the next.
TieBeforeByCall(i, j, ties) == IF rank_pc = "start" THEN i < j ELSE i > j

\* Among rows of equal composite score, the order the sort leaves them in.
TieBefore(i, j, ties) == IF ties = "input_order" THEN i < j ELSE i > j

\* Faulty variant of SortsBefore: ascending=True.
SortsBeforeAscending(rows, j, i, ties) ==
    \/ FLess(rows[j].composite_score, rows[i].composite_score)
    \/ /\ rows[i].composite_score = rows[j].composite_score
       /\ j < i

\* Row j is sorted before row i: descending composite score, then the order
\* the sort leaves equal keys in.
SortsBefore(rows, j, i, ties) ==
    \/ FLess(rows[i].composite_score, rows[j].composite_score)
    \/ /\ rows[i].composite_score = rows[j].composite_score
       /\ TieBefore(j, i, ties)

\* The position of every row in the sorted frame.
SortedPlaces(rows, ties) ==
    AsArray([i \in 1..Len(rows) |->
        1 + Cardinality({j \in 1..Len(rows) : SortsBefore(rows, j, i, ties)})])

WithRank(row, p) ==
    [ticker          |-> row.ticker,
     momentum        |-> row.momentum,
     quality         |-> row.quality,
     low_vol         |-> row.low_vol,
     pos             |-> row.pos,
     momentum_z      |-> row.momentum_z,
     quality_z       |-> row.quality_z,
     low_vol_z       |-> row.low_vol_z,
     composite_score |-> row.composite_score,
     rank            |-> p]

Reindexed(rows, places) ==
    AsArray([p \in 1..Len(rows) |->
        WithRank(rows[CHOOSE i \in 1..Len(rows) : places[i] = p], p)])

\* Step 5: df.sort_values("composite_score", ascending=False)
\*             .reset_index(drop=True) and df["rank"] = df.index + 1
SortAndRank(rows, ties) == Reindexed(rows, SortedPlaces(rows, ties))

\* Faulty variant of DfHead: the frame is not truncated.
DfHeadAll(rows, n) == rows

\* df.head(n)
DfHead(rows, n) ==
    IF n >= 0 THEN SubSeq(rows, 1, IF n < Len(rows) THEN n ELSE Len(rows))
    ELSE SubSeq(rows, 1, Max(0, Len(rows) + n))

RankedStock(row) ==
    [ticker          |-> row.ticker,
     composite_score |-> PyRound4(row.composite_score),
     momentum_z      |-> PyRound4(row.momentum_z),
     quality_z       |-> PyRound4(row.quality_z),
     low_vol_z       |-> PyRound4(row.low_vol_z),
     rank            |-> row.rank]

RankKept(kept, ties) ==
    IF Len(kept) = 0 THEN <<>> ELSE SortAndRank(Scored(kept), ties)

\* The data frame rank_stocks holds after step 5 (empty when it returned early).
RankFrame(given, ties) ==
    IF Len(given) = 0 THEN <<>>
    ELSE RankKept(DropAllMissing(BuildFrame(given)), ties)

\* The list rank_stocks returns.
Ranked(top) == AsArray([i \in 1..Len(top) |-> RankedStock(top[i])])

RankResults(frame, arg) == Ranked(DfHead(frame, EffectiveN(arg)))

(***************************************************************************)
(* agents/quant/agent4_screener.py                                         *)
(*                                                                         *)
(* A fundamentals field is an optional number: None, or some value.  The   *)
(* provider is the DataProvider interface: get_fundamentals returns the    *)
(* dict of optional numbers or raises DataProviderError.                   *)
(***************************************************************************)
None == [some |-> FALSE, v |-> 0]
Some(x) == [some |-> TRUE, v |-> x]

Fundamentals(price, market_cap, avg_vol, dte) ==
    [price            |-> price,
     market_cap       |-> market_cap,
     avg_daily_volume |-> avg_vol,
     debt_to_equity   |-> dte]

\* The dicts a provider can return: every field absent, just off its
\* threshold on the failing side, or exactly on the threshold.
FundamentalsDicts ==
    {Fundamentals(p, c, a, d) :
        p \in {None, Some(MIN_PRICE - 1), Some(MIN_PRICE)},
        c \in {None, Some(MIN_MARKET_CAP - 1), Some(MIN_MARKET_CAP)},
        a \in {None, Some(MIN_AVG_DAILY_VOLUME_USD - 1), Some(MIN_AVG_DAILY_VOLUME_USD)},
        d \in {None, Some(MAX_DEBT_TO_EQUITY), Some(MAX_DEBT_TO_EQUITY + 1)}}

\* str(e) of the DataProviderError a provider raises.
ErrorMessages == {"No mock data", "Empty fundamentals"}

NotCalled == [error |-> "not called", message |-> "", fundamentals |-> Fundamentals(None, None, None, None)]

\* What one call of data_provider.get_fundamentals(ticker) can do.
ProviderOutcomes ==
    {[error |-> "none", message |-> "", fundamentals |-> f] : f \in FundamentalsDicts}
    \cup {[error |-> "DataProviderError", message |-> msg,
           fundamentals |-> Fundamentals(None, None, None, None)] : msg \in ErrorMessages}

ScreeningResult(ticker, pass, reason) ==
    [ticker |-> ticker, passed |-> pass, reason |-> reason]

\* A reason string: its fixed text, the error message formatted into it and
\* the number formatted into it.
Reason(text, message, value) == [text |-> text, message |-> message, value |-> value]

\* Faulty variant of Catches: the except clause names another exception.
CatchesNothing(error) == FALSE

\* except DataProviderError as e
Catches(error) == error = "DataProviderError"

\* The exception of the fetch leaves _screen_single.
Escapes(outcome) == outcome.error # "none" /\ ~Catches(outcome.error)

\* Faulty variant of DebtToEquityExceeds: an absent debt-to-equity fails.
DebtToEquityFailsClosed(dte) == ~dte.some \/ dte.v > MAX_DEBT_TO_EQUITY

\* dte is not None and dte > MAX_DEBT_TO_EQUITY
DebtToEquityExceeds(dte) == dte.some /\ dte.v > MAX_DEBT_TO_EQUITY

\* Filters 1 to 4 in order, returning on the first failure.
ApplyFilters(ticker, f) ==
    IF ~f.price.some
    THEN ScreeningResult(ticker, FALSE, Reason("Price unavailable", "", 0))
    ELSE IF f.price.v < MIN_PRICE
    THEN ScreeningResult(ticker, FALSE, Reason("Price below minimum", "", f.price.v))
    ELSE IF ~f.market_cap.some
    THEN ScreeningResult(ticker, FALSE, Reason("Market cap unavailable", "", 0))
    ELSE IF f.market_cap.v < MIN_MARKET_CAP
    THEN ScreeningResult(ticker, FALSE, Reason("Market cap below minimum", "", f.market_cap.v))
    ELSE IF ~f.avg_daily_volume.some
    THEN ScreeningResult(ticker, FALSE, Reason("Average volume unavailable", "", 0))
    ELSE IF f.avg_daily_volume.v < MIN_AVG_DAILY_VOLUME_USD
    THEN ScreeningResult(ticker, FALSE,
                         Reason("Avg daily volume below minimum", "", f.avg_daily_volume.v))
    ELSE IF DebtToEquityExceeds(f.debt_to_equity)
    THEN ScreeningResult(ticker, FALSE,
                         Reason("Debt/equity exceeds maximum", "", f.debt_to_equity.v))
    ELSE ScreeningResult(ticker, TRUE, Reason("All filters passed", "", 0))

\* _screen_single for a fetch whose exception, if any, was caught.
screen_single(ticker, outcome) ==
    IF outcome.error # "none"
    THEN ScreeningResult(ticker, FALSE, Reason("Data unavailable: ", outcome.message, 0))
    ELSE ApplyFilters(ticker, outcome.fundamentals)

\* Faulty variant of PassedTickers: the filter on r.passed is missing.
PassedTickersAll(rs) == [i \in 1..Len(rs) |-> rs[i].ticker]

\* passed = [r.ticker for r in results if r.passed]
PassedTickers(rs) ==
    LET kept == SelectSeq(rs, LAMBDA r : r.passed)
    IN  [i \in 1..Len(kept) |-> kept[i].ticker]

TickerLists == {SubSeq(TickerNames, 1, k) : k \in 0..MaxUniverse}

ScreenIdle ==
    /\ tickers = <<>>
    /\ screen_pc = "idle"
    /\ fetched = NotCalled
    /\ screen_results = <<>>
    /\ passed = <<>>

RankIdle ==
    /\ factor_scores = <<>>
    /\ top_n = NoTopN
    /\ sort_ties = "input_order"
    /\ rank_pc = "idle"
    /\ df = <<>>
    /\ results = <<>>
    /\ results_again = <<>>

\* logger.debug(f"PASS  {ticker}: {result.reason}") or the FAIL line
ScreenLogRecord(result) ==
    LogRecord("DEBUG", IF result.passed THEN "PASS" ELSE "FAIL", result.ticker,
              result.reason.text, 0)

InitScreen ==
    /\ RankIdle
    /\ FactorsIdle
    /\ log = <<>>
    /\ BacktestIdle
    /\ PipelineIdle
    /\ tickers \in TickerLists
    /\ screen_pc = "loop"
    /\ fetched = NotCalled
    /\ screen_results = <<>>
    /\ passed = <<>>

\* One iteration of `for ticker in tickers`: the fetch, the filters and
\* results.append(result); an exception that is not caught ends the call.
screen_ticker ==
    /\ screen_pc = "loop"
    /\ Len(screen_results) < Len(tickers)
    /\ \E outcome \in ProviderOutcomes :
          /\ fetched' = outcome
          /\ IF Escapes(outcome)
             THEN /\ screen_pc' = "raised"
                  /\ UNCHANGED <<screen_results, log>>
             ELSE /\ screen_pc' = "loop"
                  /\ screen_results' =
                        Append(screen_results,
                               screen_single(tickers[Len(screen_results) + 1], outcome))
                  /\ log' = Append(log, ScreenLogRecord(screen_results'[Len(screen_results')]))
    /\ UNCHANGED <<tickers, passed, rank_vars, factor_vars, pipeline_vars, backtest_vars>>

\* The loop is over: build `passed` and return.
screen_return ==
    /\ screen_pc = "loop"
    /\ Len(screen_results) = Len(tickers)
    /\ passed' = PassedTickers(screen_results)
    /\ log' = Append(log, LogRecord("INFO", "Screening complete", "", "", Len(passed')))
    /\ screen_pc' = "returned"
    /\ UNCHANGED <<tickers, fetched, screen_results, rank_vars, factor_vars, pipeline_vars, backtest_vars>>

NextScreen == screen_ticker \/ screen_return

SpecScreen == InitScreen /\ [][NextScreen]_vars

(***************************************************************************)
(* agents/quant/agent5_factors.py: the three factor computations.          *)
(*                                                                         *)
(* prices["close"] is a sequence of floats, oldest bar first, NaN for a    *)
(* missing close.  An absent factor (None) is the float NaN.               *)
(***************************************************************************)
One == FromInt(1)

\* Series.dropna()
DropNa(col) == SelectSeq(col, LAMBDA x : ~x.nan)

\* close.iloc[-k]
Iloc(close, k) == close[Len(close) - k + 1]

\* Faulty variant of MomentumOf: the return is taken over the end price.
MomentumOverEndPrice(price_12m_ago, price_1m_ago) ==
    IF FLeq(price_12m_ago, Zero) THEN NaN
    ELSE FDiv(FSub(price_12m_ago, price_1m_ago), price_1m_ago)

\* if price_12m_ago <= 0: return None
\* return (price_1m_ago - price_12m_ago) / price_12m_ago
MomentumOf(price_12m_ago, price_1m_ago) ==
    IF FLeq(price_12m_ago, Zero) THEN NaN
    ELSE FDiv(FSub(price_1m_ago, price_12m_ago), price_12m_ago)

MomentumOfClose(close) ==
    IF Len(close) < MOMENTUM_LONG_WINDOW_DAYS THEN NaN
    ELSE MomentumOf(Iloc(close, MOMENTUM_LONG_WINDOW_DAYS),
                    Iloc(close, MOMENTUM_SHORT_WINDOW_DAYS))

\* _compute_momentum(prices)
compute_momentum(col) == MomentumOfClose(DropNa(col))

\* Python's min(a, b) and max(a, b) on floats.
FMin(a, b) == IF FLess(b, a) THEN b ELSE a
FMax(a, b) == IF FLess(a, b) THEN b ELSE a

\* Faulty variant of RoeComponent: ROE is not clipped.
RoeComponentUnclipped(roe) == FDiv(FAdd(roe, Dec(50)), FromRatio(15, 10))

\* roe_clipped = max(-0.5, min(1.0, roe)); (roe_clipped + 0.5) / 1.5
RoeComponent(roe) ==
    FDiv(FAdd(FMax(FNeg(Dec(50)), FMin(One, roe)), Dec(50)), FromRatio(15, 10))

\* dte_clipped = max(0.0, min(3.0, dte)); 1.0 - (dte_clipped / 3.0)
DteComponent(dte) ==
    FSub(One, FDiv(FMax(Zero, FMin(FromInt(3), dte)), FromInt(3)))

\* sum(components) / len(components)
ComponentsMean(components) ==
    FDiv(FSum(components), FromInt(Len(components)))

\* _compute_quality(fundamentals), given its two fields
compute_quality(roe, dte) ==
    IF roe.nan /\ dte.nan THEN NaN
    ELSE ComponentsMean((IF roe.nan THEN <<>> ELSE <<RoeComponent(roe)>>)
                        \o (IF dte.nan THEN <<>> ELSE <<DteComponent(dte)>>))

\* recent_close.pct_change(): close[i] / close[i-1] - 1, NaN for the first row.
PctChange(close) ==
    AsArray([i \in 1..Len(close) |->
        IF i = 1 THEN NaN ELSE FSub(FDiv(close[i], close[i - 1]), One)])

\* daily_returns.std() * np.sqrt(252), None below 10 returns
AnnualisedVol(daily_returns) ==
    IF Len(daily_returns) < 10 THEN NaN
    ELSE FMul(Std(daily_returns), FSqrt(FromInt(252)))

\* close.iloc[-VOLATILITY_WINDOW_DAYS:]
RecentClose(close) ==
    SubSeq(close, Len(close) - VOLATILITY_WINDOW_DAYS + 1, Len(close))

\* Faulty variant of VolatilityOfClose: the length of the series is not
\* tested, a series shorter than the window is used whole.
VolatilityOfAnyClose(close) ==
    IF Len(close) < VOLATILITY_WINDOW_DAYS THEN AnnualisedVol(DropNa(PctChange(close)))
    ELSE AnnualisedVol(DropNa(PctChange(RecentClose(close))))

\* if len(close) < VOLATILITY_WINDOW_DAYS: return None, and the rest
VolatilityOfClose(close) ==
    IF Len(close) < VOLATILITY_WINDOW_DAYS THEN NaN
    ELSE AnnualisedVol(DropNa(PctChange(RecentClose(close))))

\* _compute_volatility(prices)
compute_volatility(col) == VolatilityOfClose(DropNa(col))

(***************************************************************************)
(* agents/quant/agent5_factors.py: compute_factor_scores and _score_single *)
(*                                                                         *)
(* The provider's answer for a ticker is fixed: either one of its two      *)
(* calls raises DataProviderError, or get_price_history returns a series   *)
(* and get_fundamentals returns return_on_equity and debt_to_equity.  A    *)
(* `calendar` answer returns one bar for every weekday of the requested     *)
(* [start, end] range.  Dates are day numbers (date.toordinal()).          *)
(***************************************************************************)
FactorScores(ticker, momentum, quality, low_vol) ==
    [ticker |-> ticker, momentum |-> momentum, quality |-> quality, low_vol |-> low_vol]

FetchOk(close, roe, dte) ==
    [error |-> "none", call |-> "", message |-> "", calendar |-> FALSE,
     close |-> close, return_on_equity |-> roe, debt_to_equity |-> dte]

FetchFails(call, message) ==
    [error |-> "DataProviderError", call |-> call, message |-> message,
     calendar |-> FALSE, close |-> <<>>, return_on_equity |-> NaN, debt_to_equity |-> NaN]

WeekdayCalendar(roe, dte) ==
    [error |-> "none", call |-> "", message |-> "", calendar |-> TRUE,
     close |-> <<>>, return_on_equity |-> roe, debt_to_equity |-> dte]

\* date.weekday(): 0 is Monday
Weekday(day) == (day + 6) % 7

\* One bar, with a rising close, for every Monday to Friday of [first, last].
WeekdayBars(first, last) ==
    [i \in 1..Cardinality({d \in first..last : Weekday(d) < 5}) |-> FromInt(100 + i)]

\* data_provider.get_price_history(ticker, start_date, end_date)["close"]
get_price_history(answer, first, last) ==
    IF answer.calendar THEN WeekdayBars(first, last) ELSE answer.close

\* datetime.strptime(end_date) - timedelta(days=MOMENTUM_LONG_WINDOW_DAYS + 30)
WindowStart(last) == last - (MOMENTUM_LONG_WINDOW_DAYS + 30)

\* Faulty variant of CatchesFetchError: the except clause names another
\* exception.
CatchesNoFetchError(error) == FALSE

\* except DataProviderError as e
CatchesFetchError(error) == error = "DataProviderError"

\* The exception of a fetch leaves _score_single.
FetchEscapes(answer) == answer.error # "none" /\ ~CatchesFetchError(answer.error)

ScoreOfClose(ticker, close, roe, dte) ==
    FactorScores(ticker, compute_momentum(close), compute_quality(roe, dte),
                 compute_volatility(close))

\* _score_single for fetches whose exception, if any, was caught.
score_single(ticker, answer, first, last) ==
    IF answer.error # "none" THEN FactorScores(ticker, NaN, NaN, NaN)
    ELSE ScoreOfClose(ticker, AsArray(get_price_history(answer, first, last)),
                      answer.return_on_equity, answer.debt_to_equity)

\* logger.warning(f"Data fetch failed for {ticker}: {e}") in _score_single,
\* then logger.debug(f"{ticker}: momentum=..., ...") in compute_factor_scores
FactorLog(ticker, answer) ==
    (IF answer.error # "none"
     THEN <<LogRecord("WARNING", "Data fetch failed for", ticker, answer.message, 0)>>
     ELSE <<>>)
    \o <<LogRecord("DEBUG", "momentum, quality, low_vol", ticker, "", 0)>>

\* Faulty variant of ScoreAll: once a fetch has failed, the tickers after it
\* are not scored any more.
ScoreAllUntilFailure(ts, provider, first, last) ==
    AsArray([i \in 1..Len(ts) |->
        IF \E j \in 1..(i - 1) : provider[ts[j]].error # "none"
        THEN FactorScores(ts[i], NaN, NaN, NaN)
        ELSE score_single(ts[i], provider[ts[i]], first, last)])

\* A whole call of compute_factor_scores that raises nothing.
ScoreAll(ts, provider, first, last) ==
    AsArray([i \in 1..Len(ts) |-> score_single(ts[i], provider[ts[i]], first, last)])

RECURSIVE FactorLogAll(_, _, _)
FactorLogAll(ts, provider, i) ==
    IF i > Len(ts) THEN <<>>
    ELSE FactorLog(ts[i], provider[ts[i]]) \o FactorLogAll(ts, provider, i + 1)

(***************************************************************************)
(* Inputs of compute_factor_scores.                                        *)
(***************************************************************************)
FactorTickerSet == {TickerNames[i] : i \in 1..MaxFactorTickers}

\* The lists of distinct tickers.
DistinctLists(S) ==
    {l \in UNION {[1..k -> S] : k \in 0..Cardinality(S)} :
        \A i, j \in 1..Len(l) : i # j => l[i] # l[j]}

\* 2^i
Pow2(i) == [nan |-> FALSE, m |-> 2 ^ (MantBits - 1), e |-> i - (MantBits - 1)]

PriceShapes == {"rising", "falling", "constant", "doubling"}

CloseAt(shape, i) ==
    IF shape = "rising" THEN FromInt(100 + i)
    ELSE IF shape = "falling" THEN FromInt(400 - i)
    ELSE IF shape = "constant" THEN FromInt(100)
    ELSE Pow2(i)

\* What can be wrong with one bar of a series: its close is missing (NaN),
\* negative or zero.  A zero close is placed on the momentum anchor only.
PriceDefects ==
    {"none", "missing_recent", "missing_old", "negative_recent", "negative_old",
     "negative_anchor", "zero_anchor"}

DefectRow(defect, n) ==
    IF defect \in {"missing_recent", "negative_recent"} THEN n - 1
    ELSE IF defect \in {"missing_old", "negative_old"} THEN 2
    ELSE IF defect \in {"negative_anchor", "zero_anchor"}
    THEN n - MOMENTUM_LONG_WINDOW_DAYS + 1
    ELSE 0

DefectClose(defect) ==
    IF defect \in {"missing_recent", "missing_old"} THEN NaN
    ELSE IF defect = "zero_anchor" THEN Zero
    ELSE FromInt(-5)

PriceSeries(shape, n, defect) ==
    [i \in 1..n |-> IF i = DefectRow(defect, n) THEN DefectClose(defect)
                    ELSE CloseAt(shape, i)]

\* Series lengths around the two windows.
SeriesLengths ==
    {10, VOLATILITY_WINDOW_DAYS - 1, VOLATILITY_WINDOW_DAYS, VOLATILITY_WINDOW_DAYS + 1,
     MOMENTUM_LONG_WINDOW_DAYS - 1, MOMENTUM_LONG_WINDOW_DAYS, MOMENTUM_LONG_WINDOW_DAYS + 1}

RoeValues == {NaN, FromInt(-2), FNeg(Dec(50)), Zero, Dec(20), One, FromInt(5)}
DteValues == {NaN, FromInt(-1), Zero, FromRatio(15, 10), FromInt(3), FromInt(10)}

\* Seven consecutive as-of dates, one for every day of the week.
AsOfDates == 738000..738006

\* One ticker with every series and usual fundamentals, with every
\* fundamentals pair and a short series, or with the weekday calendar.
RichAnswers ==
    {FetchOk(PriceSeries(shape, n, defect), Dec(20), NaN) :
        shape \in PriceShapes, n \in SeriesLengths, defect \in PriceDefects}
    \cup {FetchOk(PriceSeries("rising", 10, "none"), roe, dte) :
            roe \in RoeValues, dte \in DteValues}

\* The answers given to the tickers of a longer list: a failing price
\* fetch, a failing fundamentals fetch, a ticker with volatility and quality
\* only, and a ticker that is fetched but has no factor at all.
SmallAnswers ==
    {FetchFails("get_price_history", "No price data returned"),
     FetchFails("get_fundamentals", "Empty fundamentals"),
     FetchOk(PriceSeries("rising", VOLATILITY_WINDOW_DAYS, "none"), Dec(20), NaN),
     FetchOk(PriceSeries("rising", 10, "none"), NaN, NaN)}

OnlyFirstTicker(answer) ==
    [t \in FactorTickerSet |->
        IF t = TickerNames[1] THEN answer
        ELSE FetchFails("get_price_history", "No price data returned")]

FactorInputs ==
    {[tickers |-> <<TickerNames[1]>>, provider |-> OnlyFirstTicker(a), as_of |-> 738000] :
        a \in RichAnswers}
    \cup {[tickers |-> <<TickerNames[1]>>,
           provider |-> OnlyFirstTicker(WeekdayCalendar(Dec(20), NaN)), as_of |-> d] :
            d \in AsOfDates}
    \cup {[tickers |-> l, provider |-> p, as_of |-> 738000] :
            l \in DistinctLists(FactorTickerSet), p \in [FactorTickerSet -> SmallAnswers]}

InitFactors ==
    /\ RankIdle
    /\ ScreenIdle
    /\ log = <<>>
    /\ BacktestIdle
    /\ PipelineIdle
    /\ \E input \in FactorInputs :
          /\ factor_tickers = input.tickers
          /\ data_provider = input.provider
          /\ as_of_date = input.as_of
    /\ start_date = 0
    /\ end_date = 0
    /\ factors_pc = "start"
    /\ scores = <<>>
    /\ tickers_again = <<>>
    /\ scores_again = <<>>

\* The price window and scores = [].
factors_start ==
    /\ factors_pc = "start"
    /\ end_date' = as_of_date
    /\ start_date' = WindowStart(as_of_date)
    /\ factors_pc' = "loop"
    /\ UNCHANGED <<factor_tickers, data_provider, as_of_date, scores, tickers_again,
                   scores_again, log, rank_vars, screen_vars, pipeline_vars, backtest_vars>>

\* One iteration of `for ticker in tickers`: _score_single and
\* scores.append(score); an exception that is not caught ends the call.
score_ticker ==
    /\ factors_pc = "loop"
    /\ Len(scores) < Len(factor_tickers)
    /\ LET ticker == factor_tickers[Len(scores) + 1]
       IN  IF FetchEscapes(data_provider[ticker])
           THEN /\ factors_pc' = "raised"
                /\ UNCHANGED <<scores, log>>
           ELSE /\ factors_pc' = "loop"
                /\ scores' = Append(scores, score_single(ticker, data_provider[ticker],
                                                         start_date, end_date))
                /\ log' = log \o FactorLog(ticker, data_provider[ticker])
    /\ UNCHANGED <<factor_tickers, data_provider, as_of_date, start_date, end_date,
                   tickers_again, scores_again, rank_vars, screen_vars, pipeline_vars, backtest_vars>>

\* return scores
factors_return ==
    /\ factors_pc = "loop"
    /\ Len(scores) = Len(factor_tickers)
    /\ factors_pc' = "returned"
    /\ UNCHANGED <<factor_tickers, data_provider, as_of_date, start_date, end_date,
                   scores, tickers_again, scores_again, log, rank_vars, screen_vars, pipeline_vars, backtest_vars>>

\* Another call with the same provider and as-of date, for any list.
compute_factor_scores_again ==
    /\ factors_pc = "returned"
    /\ \E other \in DistinctLists(FactorTickerSet) :
          /\ tickers_again' = other
          /\ scores_again' = ScoreAll(other, data_provider, start_date, end_date)
          /\ log' = log \o FactorLogAll(other, data_provider, 1)
    /\ factors_pc' = "returned_again"
    /\ UNCHANGED <<factor_tickers, data_provider, as_of_date, start_date, end_date,
                   scores, rank_vars, screen_vars, pipeline_vars, backtest_vars>>

NextFactors == factors_start \/ score_ticker \/ factors_return

SpecFactors == InitFactors /\ [][NextFactors]_vars

NextFactorsTwice == NextFactors \/ compute_factor_scores_again

SpecFactorsTwice == InitFactors /\ [][NextFactorsTwice]_vars

(***************************************************************************)
(* Specification of the ranker: the caller holds a list of FactorScores,   *)
(* calls rank_stocks with some top_n, and calls it once more with the      *)
(* same arguments.                                                         *)
(***************************************************************************)
\* The logger calls of one rank_stocks call that was given `given` and
\* left the frame `frame` and the list `ranked`.
RankLog(given, frame, ranked) ==
    IF Len(given) = 0
    THEN <<LogRecord("WARNING", "No factor scores provided to ranker", "", "", 0)>>
    ELSE (IF Len(given) > Len(frame)
          THEN <<LogRecord("WARNING", "Dropped tickers with no factor data", "", "",
                           Len(given) - Len(frame))>>
          ELSE <<>>)
         \o (IF Len(frame) = 0
             THEN <<LogRecord("ERROR", "No scoreable stocks remaining after dropping nulls",
                              "", "", 0)>>
             ELSE [i \in 1..Len(ranked) |->
                     LogRecord("INFO", "Rank", ranked[i].ticker, "", ranked[i].rank)])

InitRank ==
    /\ ScreenIdle
    /\ FactorsIdle
    /\ log = <<>>
    /\ BacktestIdle
    /\ PipelineIdle
    /\ factor_scores \in FactorScoreLists
    /\ top_n = NoTopN
    /\ sort_ties \in TiePolicies
    /\ rank_pc = "start"
    /\ df = <<>>
    /\ results = <<>>
    /\ results_again = <<>>

rank_stocks ==
    /\ rank_pc = "start"
    /\ df' = RankFrame(factor_scores, sort_ties)
    /\ \E arg \in TopNArgs :
          /\ top_n' = arg
          /\ results' = RankResults(df', arg)
    /\ log' = log \o RankLog(factor_scores, df', results')
    /\ rank_pc' = "returned"
    /\ UNCHANGED <<factor_scores, sort_ties, results_again, screen_vars, factor_vars, pipeline_vars, backtest_vars>>

rank_stocks_again ==
    /\ rank_pc = "returned"
    /\ results_again' = RankResults(RankFrame(factor_scores, sort_ties), top_n)
    /\ log' = log \o RankLog(factor_scores, df, results_again')
    /\ rank_pc' = "returned_again"
    /\ UNCHANGED <<factor_scores, top_n, sort_ties, df, results, screen_vars, factor_vars, pipeline_vars, backtest_vars>>

NextRank == rank_stocks

SpecRank == InitRank /\ [][NextRank]_vars

NextRankTwice == rank_stocks \/ rank_stocks_again

SpecRankTwice == InitRank /\ [][NextRankTwice]_vars

(***************************************************************************)
(* main.py run_pipeline and backtesting/backtest.py _run_single_period:    *)
(* one run of the three stages.  Each stage is one call; run_pipeline      *)
(* halts after a stage that leaves nothing to work on, _run_single_period  *)
(* never does.                                                             *)
(***************************************************************************)
Runners == {"run_pipeline", "_run_single_period"}

\* raw_tickers = data_provider.get_tickers_for_sector(sector)
SectorUniverses == {SubSeq(TickerNames, 1, k) : k \in 0..MaxFactorTickers}

\* What get_fundamentals answers the screener: fundamentals that pass every
\* filter, fundamentals with a price below MIN_PRICE, or an error.
ScreeningOutcomes ==
    {[error |-> "none", message |-> "",
      fundamentals |-> Fundamentals(Some(MIN_PRICE), Some(MIN_MARKET_CAP),
                                    Some(MIN_AVG_DAILY_VOLUME_USD), None)],
     [error |-> "none", message |-> "",
      fundamentals |-> Fundamentals(Some(MIN_PRICE - 1), Some(MIN_MARKET_CAP),
                                    Some(MIN_AVG_DAILY_VOLUME_USD), None)],
     [error |-> "DataProviderError", message |-> "No mock data",
      fundamentals |-> Fundamentals(None, None, None, None)]}

\* A whole call of screen_universe that raises nothing: the audit list.
ScreenAll(ts, outcomes) ==
    AsArray([i \in 1..Len(ts) |-> screen_single(ts[i], outcomes[ts[i]])])

ScreenLogAll(rs) ==
    [i \in 1..Len(rs) |-> ScreenLogRecord(rs[i])]
    \o <<LogRecord("INFO", "Screening complete", "", "", Len(PassedTickers(rs)))>>

\* Faulty variant of StageInput: the factor engine is given the raw universe.
StageInputRaw(raw_tickers, passed_tickers) == raw_tickers

\* compute_factor_scores(passed_tickers, data_provider, ...)
StageInput(raw_tickers, passed_tickers) == passed_tickers

\* sum(1 for s in factor_scores if any(v is not None for v in [...]))
scored_count(given) ==
    Cardinality({i \in 1..Len(given) : ~AllFactorsMissing(given[i])})

\* `if <nothing left>: logger.error(...); return`, in run_pipeline only
Halts(run, nothing_left) == run = "run_pipeline" /\ nothing_left

HaltLog(run, nothing_left, text) ==
    IF Halts(run, nothing_left) THEN <<LogRecord("ERROR", text, "", "", 0)>> ELSE <<>>

InitPipeline ==
    /\ runner \in Runners
    /\ pipeline_pc = "start"
    /\ stages = <<>>
    /\ log = <<>>
    /\ BacktestIdle
    /\ tickers \in SectorUniverses
    /\ screen_pc = "idle"
    /\ fetched = NotCalled
    /\ screen_results = <<>>
    /\ passed = <<>>
    /\ factor_tickers = <<>>
    /\ data_provider \in [FactorTickerSet -> SmallAnswers]
    /\ as_of_date = 738000
    /\ start_date = 0
    /\ end_date = 0
    /\ factors_pc = "idle"
    /\ scores = <<>>
    /\ tickers_again = <<>>
    /\ scores_again = <<>>
    /\ factor_scores = <<>>
    /\ top_n = NoTopN
    /\ sort_ties \in TiePolicies
    /\ rank_pc = "idle"
    /\ df = <<>>
    /\ results = <<>>
    /\ results_again = <<>>

\* passed_tickers, screening_results = screen_universe(raw_tickers, data_provider)
pipeline_screen ==
    /\ pipeline_pc = "start"
    /\ \E outcomes \in [FactorTickerSet -> ScreeningOutcomes] :
          screen_results' = ScreenAll(tickers, outcomes)
    /\ passed' = PassedTickers(screen_results')
    /\ screen_pc' = "returned"
    /\ stages' = Append(stages, "screen_universe")
    /\ log' = log \o ScreenLogAll(screen_results')
                  \o HaltLog(runner, passed' = <<>>, "Agent 4: No tickers passed screening. Halting.")
    /\ pipeline_pc' = IF Halts(runner, passed' = <<>>) THEN "halted" ELSE "screened"
    /\ UNCHANGED <<tickers, fetched, runner, rank_vars, factor_vars, backtest_vars>>

\* factor_scores = compute_factor_scores(passed_tickers, data_provider, as_of_date=...)
pipeline_factors ==
    /\ pipeline_pc = "screened"
    /\ factor_tickers' = StageInput(tickers, passed)
    /\ end_date' = as_of_date
    /\ start_date' = WindowStart(as_of_date)
    /\ scores' = ScoreAll(factor_tickers', data_provider, start_date', end_date')
    /\ factors_pc' = "returned"
    /\ stages' = Append(stages, "compute_factor_scores")
    /\ log' = log \o FactorLogAll(factor_tickers', data_provider, 1)
                  \o HaltLog(runner, scored_count(scores') = 0,
                             "Agent 5: No stocks could be scored. Halting.")
    /\ pipeline_pc' = IF Halts(runner, scored_count(scores') = 0) THEN "halted" ELSE "scored"
    /\ UNCHANGED <<data_provider, as_of_date, tickers_again, scores_again, runner,
                   rank_vars, screen_vars, backtest_vars>>

\* ranked = rank_stocks(factor_scores)
pipeline_rank ==
    /\ pipeline_pc = "scored"
    /\ factor_scores' = scores
    /\ df' = RankFrame(scores, sort_ties)
    /\ results' = RankResults(df', NoTopN)
    /\ rank_pc' = "returned"
    /\ stages' = Append(stages, "rank_stocks")
    /\ log' = log \o RankLog(scores, df', results')
                  \o HaltLog(runner, results' = <<>>,
                             "Agent 6: Ranking produced no output. Halting.")
    /\ pipeline_pc' = IF Halts(runner, results' = <<>>) THEN "halted" ELSE "ranked"
    /\ UNCHANGED <<top_n, sort_ties, results_again, runner, screen_vars, factor_vars, backtest_vars>>

NextPipeline == pipeline_screen \/ pipeline_factors \/ pipeline_rank

SpecPipeline == InitPipeline /\ [][NextPipeline]_vars

(***************************************************************************)
(* backtesting/backtest.py run_backtest: the loop over the rebalance dates. *)
(* One iteration is one call of _run_single_period inside try / except     *)
(* Exception.  The provider answers the same for a ticker on every date;   *)
(* get_tickers_for_sector may raise on any date.                           *)
(***************************************************************************)
\* The elements of a set of day numbers, ascending.
Ascending(S) ==
    [i \in 1..Cardinality(S) |-> CHOOSE d \in S : Cardinality({x \in S : x < d}) = i - 1]

\* pd.date_range(start=start, end=end, freq=freq): every day for "D", every
\* Sunday for "W".
DateRange(first, last, freq) ==
    Ascending({d \in first..last : freq = "D" \/ Weekday(d) = 6})

\* start, end and frequency of a backtest: up to MaxPeriods days or weeks
\* from Thursday 2021-07-29, or an end before the start.
BacktestWindows ==
    {[first |-> 738000, last |-> 738000 + k - 1, freq |-> "D"] : k \in 0..MaxPeriods}
    \cup {[first |-> 738000, last |-> 738000 + 7 * k, freq |-> "W"] : k \in 1..MaxPeriods}

\* The classes of exception raised inside a period that derive from Exception.
ExceptionClasses == {"DataProviderError", "KeyError"}

\* What data_provider.get_tickers_for_sector(sector) does on one date.
UniverseCalls == {"none"} \cup ExceptionClasses

\* A provider that has data for every ticker, or for every ticker but the
\* first.
BacktestProviders ==
    {[t \in FactorTickerSet |->
        FetchOk(PriceSeries("rising", VOLATILITY_WINDOW_DAYS, "none"), Dec(20), NaN)],
     [t \in FactorTickerSet |->
        IF t = TickerNames[1] THEN FetchFails("get_price_history", "No price data returned")
        ELSE FetchOk(PriceSeries("rising", VOLATILITY_WINDOW_DAYS, "none"), Dec(20), NaN)]}

\* Faulty variant of CatchesPeriodError: except DataProviderError.
CatchesDataProviderErrorOnly(error) == error = "DataProviderError"

\* except Exception as e
CatchesPeriodError(error) == error \in ExceptionClasses

BacktestSnapshot(date, ranked) ==
    [date             |-> date,
     sector           |-> "Technology",
     selected_tickers |-> [i \in 1..Len(ranked) |-> ranked[i].ticker],
     ranked_stocks    |-> ranked]

\* rank_stocks(compute_factor_scores(passed, data_provider, as_of_date=...))
RankedOfPassed(passed_list, provider, date, ties) ==
    RankResults(RankFrame(ScoreAll(passed_list, provider, WindowStart(date), date), ties),
                NoTopN)

\* _run_single_period when get_tickers_for_sector returns raw_tickers.
RunSinglePeriod(raw_tickers, fundamentals, provider, date, ties) ==
    BacktestSnapshot(date,
        RankedOfPassed(StageInput(raw_tickers,
                                  PassedTickers(ScreenAll(raw_tickers, fundamentals))),
                       provider, date, ties))

InitBacktest ==
    /\ RankIdle
    /\ ScreenIdle
    /\ PipelineIdle
    /\ log = <<LogRecord("INFO", "Starting backtest", "", "", 0)>>
    /\ \E w \in BacktestWindows : rebalance_dates = DateRange(w.first, w.last, w.freq)
    /\ period = 1
    /\ backtest_pc = "loop"
    /\ snapshots = <<>>
    /\ period_errors = <<>>
    /\ sector_universe \in SectorUniverses
    /\ sector_fundamentals \in [FactorTickerSet -> ScreeningOutcomes]
    /\ data_provider \in BacktestProviders
    /\ factor_tickers = <<>>
    /\ as_of_date = 0
    /\ start_date = 0
    /\ end_date = 0
    /\ factors_pc = "idle"
    /\ scores = <<>>
    /\ tickers_again = <<>>
    /\ scores_again = <<>>

\* One iteration of `for date in rebalance_dates`: the period either appends
\* its snapshot or raises; a caught exception is logged and the loop goes
\* on, any other ends run_backtest.
backtest_period ==
    /\ backtest_pc = "loop"
    /\ period <= Len(rebalance_dates)
    /\ \E raised \in UniverseCalls, ties \in TiePolicies :
          IF raised = "none"
          THEN /\ snapshots' = Append(snapshots,
                                      RunSinglePeriod(sector_universe, sector_fundamentals,
                                                      data_provider, rebalance_dates[period],
                                                      ties))
               /\ period_errors' = Append(period_errors, "none")
               /\ period' = period + 1
               /\ log' = Append(log, LogRecord("DEBUG", "Processing", "", "",
                                               rebalance_dates[period]))
               /\ UNCHANGED backtest_pc
          ELSE IF CatchesPeriodError(raised)
          THEN /\ period_errors' = Append(period_errors, raised)
               /\ period' = period + 1
               /\ log' = log \o <<LogRecord("DEBUG", "Processing", "", "",
                                            rebalance_dates[period]),
                                  LogRecord("WARNING", "Period failed", "", raised,
                                            rebalance_dates[period])>>
               /\ UNCHANGED <<snapshots, backtest_pc>>
          ELSE /\ backtest_pc' = "raised"
               /\ UNCHANGED <<snapshots, period_errors, period, log>>
    /\ UNCHANGED <<rebalance_dates, sector_universe, sector_fundamentals,
                   rank_vars, screen_vars, factor_vars, pipeline_vars>>

\* The loop is over: return result.
backtest_return ==
    /\ backtest_pc = "loop"
    /\ period > Len(rebalance_dates)
    /\ backtest_pc' = "returned"
    /\ log' = Append(log, LogRecord("INFO", "Backtest complete", "", "", Len(snapshots)))
    /\ UNCHANGED <<rebalance_dates, period, snapshots, period_errors, sector_universe,
                   sector_fundamentals, rank_vars, screen_vars, factor_vars, pipeline_vars>>

NextBacktest == backtest_period \/ backtest_return

SpecBacktest == InitBacktest /\ [][NextBacktest]_vars

(***************************************************************************)
(* Properties of rank_stocks.                                              *)
(***************************************************************************)
Returned == rank_pc = "returned"

Min(a, b) == IF a <= b THEN a ELSE b

\* The input entries that have at least one factor present.
Retained == {i \in 1..Len(factor_scores) : ~AllFactorsMissing(factor_scores[i])}

InputPos(ticker) == CHOOSE i \in 1..Len(factor_scores) : factor_scores[i].ticker = ticker

ResultTickers == {results[i].ticker : i \in 1..Len(results)}

\* C1: two tickers of the output with equal composite scores appear in the
\* relative order they had in the input list.
C1_TiesKeepInputOrder ==
    Returned =>
        \A i, j \in 1..Len(results) :
            (i < j /\ results[i].composite_score = results[j].composite_score)
                => InputPos(results[i].ticker) < InputPos(results[j].ticker)

\* C2: the returned list is ordered by non-increasing composite_score, its
\* i-th entry carries rank i, and a ticker whose composite score is strictly
\* the highest of the ranked universe is first with rank 1.
C2_SortedWithDenseRanks ==
    Returned =>
        /\ \A i \in 1..Len(results) : results[i].rank = i
        /\ \A i \in 1..Len(results) :
              i < Len(results) =>
                  FLeq(results[i + 1].composite_score, results[i].composite_score)
        /\ \A k \in 1..Len(df) :
              (\A j \in 1..Len(df) :
                  j # k => FLess(df[j].composite_score, df[k].composite_score))
              => /\ Len(results) >= 1
                 /\ results[1].ticker = df[k].ticker
                 /\ results[1].rank = 1

\* Three entries returned, with strictly decreasing scores.
C2_Witness ==
    /\ Returned
    /\ Len(results) = 3
    /\ FLess(results[2].composite_score, results[1].composite_score)
    /\ FLess(results[3].composite_score, results[2].composite_score)

\* C3: for a positive top_n the call returns exactly min(top_n, K) entries,
\* K the number of input tickers with at least one factor present.
C3_ReturnsMinTopNAndK ==
    (Returned /\ top_n.given /\ top_n.n > 0)
        => Len(results) = Min(top_n.n, Cardinality(Retained))

\* top_n exceeds a surviving universe that lost a ticker in step 2.
C3_Witness ==
    /\ Returned /\ top_n.given
    /\ Cardinality(Retained) = 2
    /\ Len(factor_scores) = 3
    /\ top_n.n = 3
    /\ Len(results) = 2

\* C4: a ticker is dropped iff all three of its factors are absent: it is
\* never in the output, while a ticker with a factor present is in the ranked
\* universe, and in the output when top_n is at least the retained count.
C4_DroppedIffAllAbsent ==
    Returned =>
        \A i \in 1..Len(factor_scores) :
            IF AllFactorsMissing(factor_scores[i])
            THEN /\ factor_scores[i].ticker \notin ResultTickers
                 /\ \A k \in 1..Len(df) : df[k].ticker # factor_scores[i].ticker
            ELSE /\ \E k \in 1..Len(df) : df[k].ticker = factor_scores[i].ticker
                 /\ (top_n.given /\ top_n.n >= Cardinality(Retained))
                        => factor_scores[i].ticker \in ResultTickers

\* A ticker with no factor is dropped beside one that misses two factors
\* and is returned.
C4_Witness ==
    /\ Returned /\ top_n.given /\ top_n.n = 3
    /\ \E i, j \in 1..Len(factor_scores) :
          /\ AllFactorsMissing(factor_scores[i])
          /\ factor_scores[j].momentum.nan /\ factor_scores[j].quality.nan
          /\ ~factor_scores[j].low_vol.nan
          /\ factor_scores[j].ticker \in ResultTickers
          /\ factor_scores[i].ticker \notin ResultTickers

\* C5: for every retained ticker a missing factor has z-score exactly 0.0,
\* and the composite is 0.40 * momentum_z + 0.35 * quality_z + 0.25 * low_vol_z
\* with the configured weights whatever factors are present; the returned
\* entry carries these values rounded to 4 places.
C5_NeutralFillFixedWeights ==
    Returned =>
        /\ \A k \in 1..Len(df) :
              /\ df[k].momentum.nan => df[k].momentum_z = Zero
              /\ df[k].quality.nan  => df[k].quality_z = Zero
              /\ df[k].low_vol.nan  => df[k].low_vol_z = Zero
              /\ df[k].composite_score =
                    FAdd(FAdd(FMul(Dec(40), df[k].momentum_z),
                              FMul(Dec(35), df[k].quality_z)),
                         FMul(Dec(25), df[k].low_vol_z))
        /\ \A k \in 1..Len(results) :
              /\ results[k].ticker = df[k].ticker
              /\ results[k].composite_score = PyRound4(df[k].composite_score)
              /\ results[k].momentum_z = PyRound4(df[k].momentum_z)
              /\ results[k].quality_z = PyRound4(df[k].quality_z)
              /\ results[k].low_vol_z = PyRound4(df[k].low_vol_z)

\* A returned ticker misses quality only, and its other two z-scores are
\* not zero.
C5_Witness ==
    /\ Returned
    /\ \E k \in 1..Len(results) :
          /\ df[k].quality.nan
          /\ df[k].momentum_z # Zero
          /\ df[k].low_vol_z # Zero
          /\ df[k].composite_score # Zero

FactorCols == {"momentum", "quality", "low_vol"}

RawOf(row, col) ==
    IF col = "momentum" THEN row.momentum
    ELSE IF col = "quality" THEN row.quality ELSE row.low_vol

ZOf(row, col) ==
    IF col = "momentum" THEN row.momentum_z
    ELSE IF col = "quality" THEN row.quality_z ELSE row.low_vol_z

PresentValues(col) == {RawOf(df[k], col) : k \in 1..Len(df)} \ {NaN}

\* C6: a factor whose present values over the retained universe are all
\* identical, or number fewer than two, gives every retained ticker the
\* z-score 0.0; a single-ticker input yields one entry with composite
\* score 0 and rank 1.
C6_ZeroVarianceIsNeutral ==
    Returned =>
        /\ \A col \in FactorCols :
              Cardinality(PresentValues(col)) <= 1
                  => \A k \in 1..Len(df) : ZOf(df[k], col) = Zero
        /\ (Len(factor_scores) = 1 /\ Retained # {})
              => /\ Len(results) = 1
                 /\ results[1].composite_score = Zero
                 /\ results[1].rank = 1

C8_LowerVolRanksAhead ==
    Returned =>
        \A a, b \in 1..Len(df) :
            ( /\ df[a].momentum = df[b].momentum
              /\ df[a].quality = df[b].quality
              /\ FLess(factor_scores[df[a].pos].low_vol, factor_scores[df[b].pos].low_vol) )
            => /\ FLess(df[b].low_vol_z, df[a].low_vol_z)
               /\ df[a].rank < df[b].rank
               /\ \A i, j \in 1..Len(results) :
                     (results[i].ticker = df[a].ticker /\ results[j].ticker = df[b].ticker)
                         => /\ i < j
                            /\ FLess(results[j].low_vol_z, results[i].low_vol_z)

\* Two returned tickers differ in raw volatility only, the more volatile
\* one coming first in the input.
C8_Witness ==
    /\ Returned
    /\ Len(results) >= 2
    /\ \E i, j \in 1..Len(factor_scores) :
          /\ i < j
          /\ factor_scores[i].momentum = factor_scores[j].momentum
          /\ factor_scores[i].quality = factor_scores[j].quality
          /\ ~factor_scores[i].momentum.nan
          /\ FLess(factor_scores[j].low_vol, factor_scores[i].low_vol)
          /\ {factor_scores[i].ticker, factor_scores[j].ticker} \subseteq ResultTickers


(***************************************************************************)
(* Properties of the screener.                                             *)
(***************************************************************************)
\* The last ticker screened, its fetch having succeeded.
LastFetchSucceeded ==
    /\ screen_pc = "loop"
    /\ Len(screen_results) >= 1
    /\ fetched.error = "none"

LastResult == screen_results[Len(screen_results)]

PriceOk(f) == f.price.some /\ f.price.v >= MIN_PRICE
MarketCapOk(f) == f.market_cap.some /\ f.market_cap.v >= MIN_MARKET_CAP
VolumeOk(f) == f.avg_daily_volume.some /\ f.avg_daily_volume.v >= MIN_AVG_DAILY_VOLUME_USD
DebtOk(f) == ~f.debt_to_equity.some \/ f.debt_to_equity.v <= MAX_DEBT_TO_EQUITY

\* The reason texts that name each check.
ReasonsNaming(name) ==
    IF name = "price" THEN {"Price unavailable", "Price below minimum"}
    ELSE IF name = "market cap" THEN {"Market cap unavailable", "Market cap below minimum"}
    ELSE IF name = "volume"
    THEN {"Average volume unavailable", "Avg daily volume below minimum"}
    ELSE {"Debt/equity exceeds maximum"}

FirstFailingCheck(f) ==
    IF ~PriceOk(f) THEN "price"
    ELSE IF ~MarketCapOk(f) THEN "market cap"
    ELSE IF ~VolumeOk(f) THEN "volume"
    ELSE "debt-to-equity"

\* C9: a ticker whose fundamentals fetch succeeds passes iff price, market
\* cap and average daily volume are present and at least their minimum and
\* debt-to-equity is absent or at most its maximum; when it fails, the
\* reason names the first failing check in the order price, market cap,
\* volume, debt-to-equity.
C9_PassesIffAllThresholdsMet ==
    LastFetchSucceeded =>
        LET f == fetched.fundamentals
            ok == PriceOk(f) /\ MarketCapOk(f) /\ VolumeOk(f) /\ DebtOk(f)
        IN  /\ LastResult.passed <=> ok
            /\ LastResult.ticker = tickers[Len(screen_results)]
            /\ ~ok => LastResult.reason.text \in ReasonsNaming(FirstFailingCheck(f))

\* A ticker with no debt-to-equity passed, after a ticker that was rejected
\* for its market cap.
C9_Witness ==
    /\ LastFetchSucceeded
    /\ Len(screen_results) >= 2
    /\ ~fetched.fundamentals.debt_to_equity.some
    /\ LastResult.passed
    /\ screen_results[1].reason.text = "Market cap below minimum"

\* C10: with a provider that keeps the DataProvider interface (it returns
\* the fundamentals or raises DataProviderError), screening never raises: a
\* failed fetch becomes a ScreeningResult with passed = false whose reason
\* carries the error message, and the remaining tickers are screened, so
\* the call returns one result per ticker.
C10_FetchFailureIsAResult ==
    /\ screen_pc # "raised"
    /\ (screen_pc = "loop" /\ Len(screen_results) >= 1 /\ fetched.error = "DataProviderError")
         => /\ LastResult.ticker = tickers[Len(screen_results)]
            /\ LastResult.passed = FALSE
            /\ LastResult.reason.text = "Data unavailable: "
            /\ LastResult.reason.message = fetched.message
    /\ screen_pc = "returned" => Len(screen_results) = Len(tickers)

\* The call returned: the fetch failed for the first ticker and the next
\* tickers were screened, one of them passing.
C10_Witness ==
    /\ screen_pc = "returned"
    /\ Len(screen_results) = 3
    /\ screen_results[1].reason.text = "Data unavailable: "
    /\ screen_results[1].reason.message = "No mock data"
    /\ screen_results[2].passed
    /\ passed = <<"T2">>


\* The tickers at the places of `rs` whose result passed, in order.
RECURSIVE PassedFrom(_, _)
PassedFrom(rs, i) ==
    IF i > Len(rs) THEN <<>>
    ELSE IF rs[i].passed THEN <<rs[i].ticker>> \o PassedFrom(rs, i + 1)
    ELSE PassedFrom(rs, i + 1)

\* C11: screen_universe returns one ScreeningResult per input ticker in
\* input order, and a passed list that is exactly the sub-sequence of the
\* input tickers whose result has passed = true; every excluded ticker has
\* a result with passed = false and a non-empty reason.
C11_AuditListAndPassedList ==
    screen_pc = "returned" =>
        /\ Len(screen_results) = Len(tickers)
        /\ \A i \in 1..Len(tickers) : screen_results[i].ticker = tickers[i]
        /\ passed = PassedFrom(screen_results, 1)
        /\ \A i \in 1..Len(tickers) :
              (\A k \in 1..Len(passed) : passed[k] # tickers[i])
                  => /\ screen_results[i].passed = FALSE
                     /\ screen_results[i].reason.text # ""

\* A mixed universe: the first and the third ticker pass, the second is
\* rejected for its price.
C11_Witness ==
    /\ screen_pc = "returned"
    /\ passed = <<"T1", "T3">>
    /\ Len(screen_results) = 3
    /\ screen_results[2].reason.text = "Price below minimum"

(***************************************************************************)
(* Properties of compute_factor_scores                                      *)
(***************************************************************************)
FactorsReturned == factors_pc = "returned"

FetchFailed(ticker) == data_provider[ticker].error = "DataProviderError"

AllAbsent(score) == score.momentum.nan /\ score.quality.nan /\ score.low_vol.nan

\* C12: a failing fetch never makes compute_factor_scores raise; the call
\* returns one FactorScores per input ticker, in input order; the ticker
\* whose price-history or fundamentals fetch failed has its three factors
\* absent, and the tickers after it are scored all the same.
C12_FetchFailureIsAbsentScores ==
    /\ factors_pc # "raised"
    /\ FactorsReturned =>
          /\ Len(scores) = Len(factor_tickers)
          /\ \A i \in 1..Len(scores) :
                /\ scores[i].ticker = factor_tickers[i]
                /\ FetchFailed(factor_tickers[i]) => AllAbsent(scores[i])
                /\ ~FetchFailed(factor_tickers[i]) =>
                      scores[i] = ScoreOfClose(factor_tickers[i],
                                               data_provider[factor_tickers[i]].close,
                                               data_provider[factor_tickers[i]].return_on_equity,
                                               data_provider[factor_tickers[i]].debt_to_equity)
                         \/ data_provider[factor_tickers[i]].calendar

\* The fundamentals fetch of the first ticker failed and the second ticker
\* was scored after it.
C12_Witness ==
    /\ FactorsReturned
    /\ Len(factor_tickers) = 2
    /\ FetchFailed(factor_tickers[1])
    /\ data_provider[factor_tickers[1]].call = "get_fundamentals"
    /\ AllAbsent(scores[1])
    /\ ~scores[2].low_vol.nan
    /\ ~scores[2].quality.nan

\* The closes of a fetched series that are not missing, oldest first.
ValidCloses(ticker) == AsArray(DropNa(data_provider[ticker].close))

\* The k-th most recent of a sequence of closes.
KthMostRecent(close, k) == close[Len(close) + 1 - k]

StrictlyRising(close) == \A i \in 1..(Len(close) - 1) : FLess(close[i], close[i + 1])

StrictlyFalling(close) == \A i \in 1..(Len(close) - 1) : FLess(close[i + 1], close[i])

\* The ticker was fetched from a provider that answers with a fixed series.
FetchedSeries(ticker) ==
    data_provider[ticker].error = "none" /\ ~data_provider[ticker].calendar

MomentumAsStated(close, momentum) ==
    IF Len(close) < MOMENTUM_LONG_WINDOW_DAYS THEN momentum.nan
    ELSE LET l == KthMostRecent(close, MOMENTUM_LONG_WINDOW_DAYS)
             s == KthMostRecent(close, MOMENTUM_SHORT_WINDOW_DAYS)
         IN  IF l.m <= 0 THEN momentum.nan
             ELSE /\ momentum = FDiv(FSub(s, l), l)
                  /\ StrictlyRising(close) => momentum.m > 0
                  /\ StrictlyFalling(close) => momentum.m < 0

\* C13: momentum is absent exactly when the series has fewer than
\* MOMENTUM_LONG_WINDOW_DAYS closes that are not missing or when the anchor
\* close is not positive; otherwise it is (s - l) / l, with l the
\* MOMENTUM_LONG_WINDOW_DAYS-th and s the MOMENTUM_SHORT_WINDOW_DAYS-th most
\* recent such close, which is positive for a strictly rising series and
\* negative for a strictly falling one.
C13_MomentumOverTheTwoWindows ==
    \A i \in 1..Len(scores) :
        FetchedSeries(factor_tickers[i]) =>
            MomentumAsStated(ValidCloses(factor_tickers[i]), scores[i].momentum)

\* A rising series of one bar more than the long window, one of whose closes
\* is missing: exactly MOMENTUM_LONG_WINDOW_DAYS closes are left and the
\* momentum is a positive number.
C13_Witness ==
    /\ FactorsReturned
    /\ Len(scores) = 1
    /\ FetchedSeries(factor_tickers[1])
    /\ Len(data_provider[factor_tickers[1]].close) = MOMENTUM_LONG_WINDOW_DAYS + 1
    /\ Len(ValidCloses(factor_tickers[1])) = MOMENTUM_LONG_WINDOW_DAYS
    /\ StrictlyRising(ValidCloses(factor_tickers[1]))
    /\ ~scores[1].momentum.nan
    /\ scores[1].momentum.m > 0

\* x limited to [lo, hi]
Clipped(lo, hi, x) == IF FLess(x, lo) THEN lo ELSE IF FLess(hi, x) THEN hi ELSE x

\* ROE on [-0.5, 1.0] mapped to [0, 1]
RoeAsStated(roe) ==
    FDiv(FSub(Clipped(FNeg(Dec(50)), One, roe), FNeg(Dec(50))), FromRatio(15, 10))

\* D/E on [0, 3.0], inverted and mapped to [0, 1]
DteAsStated(dte) ==
    FDiv(FSub(FromInt(3), Clipped(Zero, FromInt(3), dte)), FromInt(3))

QualityAsStated(roe, dte, quality) ==
    IF roe.nan /\ dte.nan THEN quality.nan
    ELSE /\ ~quality.nan
         /\ FLeq(Zero, quality) /\ FLeq(quality, One)
         /\ dte.nan => quality = RoeAsStated(roe)
         /\ roe.nan => quality = DteAsStated(dte)
         /\ ~roe.nan /\ ~dte.nan =>
               quality = FDiv(FAdd(RoeAsStated(roe), DteAsStated(dte)), FromInt(2))

Constant(close) == \A i \in 1..Len(close) : close[i] = close[1]

\* The most recent VOLATILITY_WINDOW_DAYS of at least that many closes.
WindowCloses(close) ==
    [i \in 1..VOLATILITY_WINDOW_DAYS |-> KthMostRecent(close, VOLATILITY_WINDOW_DAYS + 1 - i)]

\* The day-over-day returns of a window of closes are not all the same.
ReturnsDiffer(window) ==
    \E i, j \in 2..Len(window) :
        FDiv(window[i], window[i - 1]) # FDiv(window[j], window[j - 1])

PositiveCloses(ticker) ==
    LET col == data_provider[ticker].close
        Keep(c) == ~c.nan /\ c.m > 0
    IN  AsArray(SelectSeq(col, Keep))

\* C16: a bar whose close is missing or not positive is excluded before the
\* factors are computed: momentum and volatility are those of the series
\* without such bars, which neither count toward the two windows nor serve
\* as a price.
C16_NonPositiveClosesExcluded ==
    \A i \in 1..Len(scores) :
        FetchedSeries(factor_tickers[i]) =>
            /\ scores[i].momentum = MomentumOfClose(PositiveCloses(factor_tickers[i]))
            /\ scores[i].low_vol = VolatilityOfClose(PositiveCloses(factor_tickers[i]))

\* C17: the requested window ends at the as-of date and is long enough: a
\* provider that returns one bar per weekday of [start_date, end_date]
\* returns at least MOMENTUM_LONG_WINDOW_DAYS bars, and momentum is never
\* absent for lack of history.
C17_WindowCoversLongLookback ==
    \A i \in 1..Len(scores) :
        data_provider[factor_tickers[i]].calendar =>
            /\ end_date = as_of_date
            /\ Len(WeekdayBars(start_date, end_date)) >= MOMENTUM_LONG_WINDOW_DAYS
            /\ ~scores[i].momentum.nan

\* C18: the FactorScores of a ticker depends on the provider's answer for that
\* ticker only: two calls with the same provider and as-of date give it the
\* same scores, whatever the other tickers of the two lists are, wherever it
\* stands in them, and whether or not another ticker's fetch fails.
C18_ScoresIndependentOfOtherTickers ==
    factors_pc = "returned_again" =>
        /\ Len(scores_again) = Len(tickers_again)
        /\ \A i \in 1..Len(scores), j \in 1..Len(scores_again) :
              factor_tickers[i] = tickers_again[j] => scores[i] = scores_again[j]

\* The ticker scored first in one call is scored in the other call after a
\* ticker whose fetch fails, and gets the same volatility and quality.
C18_Witness ==
    /\ factors_pc = "returned_again"
    /\ Len(factor_tickers) = 2
    /\ tickers_again = <<factor_tickers[2], factor_tickers[1]>>
    /\ FetchFailed(factor_tickers[2])
    /\ ~scores[1].low_vol.nan
    /\ ~scores[1].quality.nan
    /\ scores_again[2] = scores[1]
    /\ AllAbsent(scores_again[1])

(***************************************************************************)
(* Properties of the log                                                    *)
(***************************************************************************)
\* A log record that names the ticker and gives a reason of its own.
LoggedWithReason(ticker) ==
    \E k \in 1..Len(log) : log[k].ticker = ticker /\ log[k].detail # ""

\* A log record that names the ticker.
Logged(ticker) == \E k \in 1..Len(log) : log[k].ticker = ticker

\* C19: every ticker discarded or degraded during a run has a log record of
\* its own that names it: a ticker that failed the screen (with the reason
\* of the failure), a ticker whose fetch failed in the factor engine (with
\* the provider's message), and a ticker dropped by the ranker.
C19_EveryDiscardedTickerIsLogged ==
    /\ \A i \in 1..Len(screen_results) :
          ~screen_results[i].passed => LoggedWithReason(screen_results[i].ticker)
    /\ \A i \in 1..Len(scores) :
          FetchFailed(factor_tickers[i]) => LoggedWithReason(factor_tickers[i])
    /\ Returned =>
          \A i \in 1..Len(factor_scores) :
              (\A k \in 1..Len(df) : df[k].ticker # factor_scores[i].ticker)
                  => Logged(factor_scores[i].ticker)

(***************************************************************************)
(* Properties of a pipeline run                                             *)
(***************************************************************************)
StageOrder == <<"screen_universe", "compute_factor_scores", "rank_stocks">>

Invoked(stage) == \E k \in 1..Len(stages) : stages[k] = stage

PassedTheScreen(ticker) ==
    \E i \in 1..Len(screen_results) :
        screen_results[i].ticker = ticker /\ screen_results[i].passed

\* C20: in a run of run_pipeline or _run_single_period the stages execute in
\* the order Screener, Factor Engine, Ranking Engine; the Factor Engine is
\* invoked on tickers that passed the screen only; ranking starts only when
\* there is a FactorScores for every passed ticker; and every ticker of the
\* ranked shortlist has a ScreeningResult with passed = true.
C20_StagesInOrderOnPassedTickers ==
    /\ Len(stages) <= Len(StageOrder)
    /\ \A k \in 1..Len(stages) : stages[k] = StageOrder[k]
    /\ Invoked("compute_factor_scores") =>
          \A i \in 1..Len(factor_tickers) : PassedTheScreen(factor_tickers[i])
    /\ Invoked("rank_stocks") =>
          \A i \in 1..Len(screen_results) :
              screen_results[i].passed =>
                  \E k \in 1..Len(factor_scores) :
                      factor_scores[k].ticker = screen_results[i].ticker
    /\ \A k \in 1..Len(results) : PassedTheScreen(results[k].ticker)

\* A run of _run_single_period over two tickers: the first fails the screen,
\* the second passes, is scored and is alone in the shortlist.
C20_Witness ==
    /\ runner = "_run_single_period"
    /\ pipeline_pc = "ranked"
    /\ stages = StageOrder
    /\ Len(screen_results) = 2
    /\ ~screen_results[1].passed
    /\ data_provider[tickers[1]].error = "none"
    /\ Len(results) = 1
    /\ results[1].ticker = tickers[2]

(***************************************************************************)
(* Properties of the top_n argument                                         *)
(***************************************************************************)
\* C22: the result of rank_stocks is never longer than the top_n the caller
\* passed, for every top_n >= 0 that is passed, 0 included (the result is
\* then empty); TOP_N_PER_SECTOR limits the result only when top_n is
\* omitted.
C22_NeverLongerThanPassedTopN ==
    Returned =>
        IF top_n.given
        THEN /\ Len(results) <= top_n.n
             /\ top_n.n = 0 => results = <<>>
        ELSE Len(results) <= TOP_N_PER_SECTOR

(***************************************************************************)
(* Properties of run_backtest                                               *)
(***************************************************************************)
\* The dates among the first i rebalance dates whose period raised nothing.
RECURSIVE SuccessfulDates(_)
SuccessfulDates(i) ==
    IF i = 0 THEN <<>>
    ELSE IF period_errors[i] = "none"
    THEN Append(SuccessfulDates(i - 1), rebalance_dates[i])
    ELSE SuccessfulDates(i - 1)

SnapshotDates == [k \in 1..Len(snapshots) |-> snapshots[k].date]

\* C21: run_backtest takes the rebalance dates in ascending order and a
\* failing period never stops it: the date whose pipeline raised is
\* skipped, the later dates are still processed, run_backtest does not
\* raise, and result.snapshots holds one snapshot for each successful date
\* and no other, in ascending date order.
C21_FailingPeriodIsSkipped ==
    /\ backtest_pc # "raised"
    /\ \A i \in 1..(Len(rebalance_dates) - 1) : rebalance_dates[i] < rebalance_dates[i + 1]
    /\ backtest_pc \in {"loop", "returned"} =>
          /\ Len(period_errors) = period - 1
          /\ SnapshotDates = SuccessfulDates(Len(period_errors))
    /\ backtest_pc = "returned" => Len(period_errors) = Len(rebalance_dates)
    /\ \A k \in 1..(Len(snapshots) - 1) : snapshots[k].date < snapshots[k + 1].date

\* The period of the first date raised KeyError, the second date was still
\* processed and its snapshot, with a ticker selected, is the only one.
C21_Witness ==
    /\ backtest_pc = "returned"
    /\ Len(rebalance_dates) = 2
    /\ period_errors = <<"KeyError", "none">>
    /\ Len(snapshots) = 1
    /\ snapshots[1].date = rebalance_dates[2]
    /\ snapshots[1].selected_tickers # <<>>

=============================================================================
